---- MODULE Spec2Model ----
(***************************************************************************)
(* s3-db: the Collection facade, the S3DB process-wide configuration and   *)
(* the Head behaviour, as a state machine.                                 *)
(*                                                                         *)
(* The Collection is the one that resolves its configuration through the   *)
(* CollectionRegistry; CollectionBehavior, S3Client, CollectionRegistry and *)
(* the two configuration classes are known by their use only.              *)
(*                                                                         *)
(* A JavaScript string is a sequence of atoms (short pieces of text); an   *)
(* optional value is a record [def, val]; an object is a function from its *)
(* own property names to values, so that object spread is function overlay.*)
(***************************************************************************)
EXTENDS Integers, Sequences, FiniteSets, TLC

VARIABLES configuration, supplied, collections, lastCtor, call

vars == <<configuration, supplied, collections, lastCtor, call>>

\* ------------------------------------------------------------------ bounds

\* Collection objects alive at once.
MaxCollections == 2

\* ------------------------------------------------------- JavaScript values

Undefined == [def |-> FALSE, val |-> <<>>]

Str(s) == [def |-> TRUE, val |-> s]

\* !v is false: v is neither undefined nor the empty string.
Truthy(v) == v.def /\ v.val # <<>>

\* `${v}`: undefined prints as the text "undefined".
TemplateStr(v) == IF v.def THEN v.val ELSE <<"undefined">>

\* a || b
OrElse(a, b) == IF Truthy(a) THEN a ELSE b

\* s.startsWith(p)
StartsWith(s, p) == Len(p) <= Len(s) /\ SubSeq(s, 1, Len(p)) = p

\* obj[k], undefined when obj has no own property k.
Get(obj, k) == IF k \in DOMAIN obj THEN obj[k] ELSE Undefined

\* { ...a, ...b }: every own property of b, then those of a that b lacks.
Spread(a, b) ==
  [k \in (DOMAIN a) \cup (DOMAIN b) |-> IF k \in DOMAIN b THEN b[k] ELSE a[k]]

EmptyObject == [k \in {} |-> Undefined]

LowerAtom(a) ==
  CASE a = "Users" -> "users"
    [] a = "Orders" -> "orders"
    [] a = "Items" -> "items"
    [] OTHER -> a

\* s.toLowerCase()
toLowerCase(s) == [i \in 1..Len(s) |-> LowerAtom(s[i])]

RECURSIVE IndexOf(_, _, _)
\* s.indexOf(t) from position i on (1-based); 0 when t does not occur.
IndexOf(s, t, i) ==
  IF i > Len(s) THEN 0
  ELSE IF s[i] = t THEN i
  ELSE IndexOf(s, t, i + 1)

\* s.replace(t, r) with a string pattern t: the FIRST occurrence only; the
\* replacement is converted to a string.
Replace(s, t, r) ==
  LET i == IndexOf(s, t, 1)
  IN IF i = 0 THEN s
     ELSE SubSeq(s, 1, i - 1) \o TemplateStr(r) \o SubSeq(s, i + 1, Len(s))

\* ----------------------------------------------------------------- S3DB

Fields == {"baseName", "stage", "bucketPattern", "region"}

DefaultPattern ==
  <<"{{stage}}", "-", "{{region}}", "-", "{{baseName}}", "-", "{{bucketName}}">>

\* new S3DBConfiguration()
S3DBConfiguration ==
  [baseName |-> Str(<<"s3db">>), stage |-> Str(<<"dev">>),
   bucketPattern |-> Str(DefaultPattern), region |-> Undefined]

FallbackRegion == Str(<<"us-west-2">>)

\* S3DB.getRegion() on the configuration db
getRegion(db) == OrElse(db.region, FallbackRegion)

\* S3DB.getCollectionFQN(name) on the configuration db. The pattern is a
\* string in every configuration reached, and no value holds a '$'.
getCollectionFQN(db, name) ==
  Replace(
    Replace(
      Replace(
        Replace(db.bucketPattern.val, "{{stage}}", db.stage),
        "{{region}}", getRegion(db)),
      "{{baseName}}", db.baseName),
    "{{bucketName}}", name)

\* Overlay with the bug of starting over from the defaults on every update.
OverlayFromDefaults(old, new) == Spread(S3DBConfiguration, new)

\* this.configuration = { ...this.configuration, ...configuration }
Overlay(old, new) == Spread(old, new)

\* S3DB.update(arg)
update(arg) ==
  /\ configuration' = Overlay(configuration, arg)
  /\ supplied' = [f \in Fields |-> IF f \in DOMAIN arg THEN arg[f] ELSE supplied[f]]
  /\ UNCHANGED <<collections, lastCtor, call>>

\* Arguments of S3DB.update in the facade scenarios.
RepeatPattern == <<"{{stage}}", "-", "{{stage}}", "-", "{{bucketName}}">>

UpdateArgs == { [stage |-> Str(<<"prod">>), bucketPattern |-> Str(RepeatPattern)] }

\* ---------------------------------------------------- CollectionRegistry

StrT(s) == [kind |-> "string", text |-> s, name |-> Undefined]

ClassT(n) == [kind |-> "class", text |-> <<>>, name |-> n]

RegistryKeys == {<<"users">>, <<"orders">>, <<"items">>}

RegistryEntry(k) ==
  CASE k = <<"users">> -> [name |-> Str(<<"users">>), pageSize |-> 100]
    [] k = <<"orders">> ->
         [name |-> Str(<<"orders-v2">>), type |-> StrT(<<"legacy">>)]
    [] OTHER -> [pageSize |-> 10]

\* CollectionRegistry.instance().resolve(key); spreading undefined adds nothing.
resolve(k) == IF k \in RegistryKeys THEN RegistryEntry(k) ELSE EmptyObject

\* new CollectionConfiguration()
CollectionConfiguration == [pageSize |-> 50]

\* ------------------------------------------------------------ Collection

TypeArgs ==
  { StrT(<<"Users">>), ClassT(Str(<<"Orders">>)), StrT(<<>>),
    StrT(<<"Items">>), ClassT(Undefined) }

RootPrefixes == {Undefined, Str(<<>>), Str(<<"/a/">>)}

ChildPrefixes == {<<"/a/">>, <<"b/">>}

Ids == {<<"1234">>, <<"/a/", "1234">>}

\* const name = typeof type === 'string' ? type : `${type.name}`
nameOf(type) == IF type.kind = "string" THEN type.text ELSE TemplateStr(type.name)

\* mergeConfiguration with the bug of spreading the registry entry last.
mergeRegistryLast(defaults, resolved, type) ==
  Spread(Spread(defaults, [type |-> type]), resolved)

\* { ...new CollectionConfiguration(), ...resolvedConfiguration, ...{ type } }
mergeConfiguration(defaults, resolved, type) ==
  Spread(Spread(defaults, resolved), [type |-> type])

\* nameMissing with the bug of never throwing.
nameNeverMissing(conf) == FALSE

\* if (!this.configuration.name) throw ...
nameMissing(conf) == ~Truthy(Get(conf, "name"))

\* new XBehavior(configuration, s3Client, fullBucketName, idPrefix)
Behavior(conf, fullBucketName, idPrefix) ==
  [configuration |-> conf, fullBucketName |-> fullBucketName, idPrefix |-> idPrefix]

\* The constructor run on (type, idPrefix) while the process-wide
\* configuration is db: the error thrown ("" for none), the steps taken in
\* order, and the object built.
Constructor(type, idPrefix, db) ==
  LET name == nameOf(type)
      conf == mergeConfiguration(CollectionConfiguration,
                                 resolve(toLowerCase(name)), type)
      fullBucketName == getCollectionFQN(db, Get(conf, "name"))
  IN IF name = <<>>
     THEN [error |-> "No type was provided.", steps |-> <<"logger">>,
           object |-> EmptyObject]
     ELSE IF nameMissing(conf)
     THEN [error |-> "The configuration has no name defined",
           steps |-> <<"logger", "resolve">>, object |-> EmptyObject]
     ELSE [error |-> "",
           steps |-> <<"logger", "resolve", "fqn", "s3Client", "behaviors">>,
           object |-> [configuration |-> conf, idPrefix |-> idPrefix,
                       headBehavior |-> Behavior(conf, fullBucketName, idPrefix)]]

\* subCollectionArgs with the bug of handing the parent's type on.
subCollectionParentType(c, prefix, newType) ==
  [type |-> c.configuration.type, idPrefix |-> Str(TemplateStr(c.idPrefix) \o prefix)]

\* subCollection(prefix, newType): the arguments of the constructor call
subCollectionArgs(c, prefix, newType) ==
  [type |-> newType, idPrefix |-> Str(TemplateStr(c.idPrefix) \o prefix)]

\* The effective prefix of an optional one: none and "" prefix nothing.
Eff(p) == IF p.def THEN p.val ELSE <<>>

\* A constructor call, by the application (parent = 0) or by subCollection of
\* collections[parent]. The object built is stored with a note of the call
\* (made): who called, with which prefix and type, under which process-wide
\* configuration, and the prefix the documentation of subCollection promises
\* (path: the parent's, then the child's).
construct(type, idPrefix, parent, prefix, newType) ==
  LET r == Constructor(type, idPrefix, configuration)
      made == [parent |-> parent, prefix |-> prefix, type |-> newType,
               db |-> configuration,
               path |-> IF parent = 0 THEN Eff(idPrefix)
                        ELSE collections[parent].made.path \o prefix]
  IN /\ lastCtor' = [type |-> type, error |-> r.error, steps |-> r.steps]
     /\ collections' =
          IF r.error = "" THEN Append(collections, [obj |-> r.object, made |-> made])
          ELSE collections
     /\ UNCHANGED <<configuration, supplied, call>>

\* new Collection(type, idPrefix)
newCollection(type, idPrefix) ==
  /\ Len(collections) < MaxCollections
  /\ construct(type, idPrefix, 0, <<>>, type)

\* collections[i].subCollection(prefix, newType)
subCollection(i, prefix, newType) ==
  /\ Len(collections) < MaxCollections
  /\ LET a == subCollectionArgs(collections[i].obj, prefix, newType)
     IN construct(a.type, a.idPrefix, i, prefix, newType)

\* --------------------------------------------------------- HeadBehavior

Outcomes == {"ok", "NotFound", "AccessDenied"}

\* CollectionBehavior.adjustId(id)
adjustId(idPrefix, id) ==
  IF ~Truthy(idPrefix) THEN id
  ELSE IF StartsWith(id, idPrefix.val) THEN id
  ELSE idPrefix.val \o id

\* headParameters with the bug of prepending the prefix to every id.
headParametersAlwaysPrefix(b, id) ==
  [Bucket |-> b.fullBucketName,
   Key |-> IF Truthy(b.idPrefix) THEN b.idPrefix.val \o id ELSE id]

\* headParameters with the bug of resolving the bucket name on every call.
headParametersLiveBucket(b, id) ==
  [Bucket |-> getCollectionFQN(configuration, Get(b.configuration, "name")),
   Key |-> adjustId(b.idPrefix, id)]

\* const parameters: HeadObjectRequest = { Bucket, Key }
headParameters(b, id) ==
  [Bucket |-> b.fullBucketName, Key |-> adjustId(b.idPrefix, id)]

\* S3Client.buildS3Metadata(response)
buildS3Metadata(outcome) == Str(<<"metadata">>)

\* S3Client.handleError(error, bucket, id)
handleError(error, bucket, id) ==
  [kind |-> IF error = "NotFound" THEN "NotFoundError" ELSE "StorageError",
   cause |-> error, bucket |-> bucket, key |-> id]

NoError == [kind |-> "", cause |-> "", bucket |-> <<>>, key |-> <<>>]

\* What head(id) does once the backend has answered: return, or throw.
headSettled(b, id, outcome) ==
  IF outcome = "ok"
  THEN [status |-> "returned", value |-> buildS3Metadata(outcome), error |-> NoError]
  ELSE [status |-> "thrown", value |-> Undefined,
        error |-> handleError(outcome, b.fullBucketName, id)]

NoHead ==
  [col |-> 0, id |-> <<>>, Bucket |-> <<>>, Key |-> <<>>, outcome |-> "",
   status |-> "", value |-> Undefined, error |-> NoError]

\* collections[i].head(id), up to the await of headObject(parameters).promise().
\* One head call is followed at a time: a behaviour holds no mutable state, so
\* every other call in flight runs the same code on the same fields.
head(i, id) ==
  LET p == headParameters(collections[i].obj.headBehavior, id)
  IN /\ call' = [col |-> i, id |-> id, Bucket |-> p.Bucket, Key |-> p.Key,
                 outcome |-> "", status |-> "pending", value |-> Undefined,
                 error |-> NoError]
     /\ UNCHANGED <<configuration, supplied, collections, lastCtor>>

\* The backend answers the call: head resumes after the await.
headResume(outcome) ==
  LET s == headSettled(collections[call.col].obj.headBehavior, call.id, outcome)
  IN /\ call.status = "pending"
     /\ call' = [call EXCEPT !.outcome = outcome, !.status = s.status,
                             !.value = s.value, !.error = s.error]
     /\ UNCHANGED <<configuration, supplied, collections, lastCtor>>

\* ------------------------------------------------------- specifications

NoCtor == [type |-> StrT(<<>>), error |-> "", steps |-> <<>>]

Init ==
  /\ configuration = S3DBConfiguration
  /\ supplied = S3DBConfiguration
  /\ collections = <<>>
  /\ lastCtor = NoCtor
  /\ call = NoHead

Next ==
  \/ \E arg \in UpdateArgs : update(arg)
  \/ \E type \in TypeArgs, idPrefix \in RootPrefixes : newCollection(type, idPrefix)
  \/ \E i \in 1..Len(collections), prefix \in ChildPrefixes, newType \in TypeArgs :
       subCollection(i, prefix, newType)
  \/ \E i \in 1..Len(collections), id \in Ids : head(i, id)
  \/ \E outcome \in Outcomes : headResume(outcome)

Spec == Init /\ [][Next]_vars

\* The process-wide configuration alone, under every update argument built
\* from these values: each field is left out or given one of its values.
ExamplePattern == <<"{{baseName}}", "-", "{{stage}}", "-", "{{bucketName}}">>

FieldValues(f) ==
  CASE f = "baseName" -> {Str(<<"app">>), Str(<<>>)}
    [] f = "stage" -> {Str(<<"prod">>), Undefined}
    [] f = "region" -> {Str(<<"eu-west-1">>), Str(<<>>), Undefined}
    [] OTHER -> {Str(RepeatPattern), Str(ExamplePattern), Str(<<"{{bucketName}}">>)}

Piece(f) == {EmptyObject} \cup {[k \in {f} |-> v] : v \in FieldValues(f)}

S3DBArgs ==
  { Spread(Spread(a, b), Spread(c, d)) :
      a \in Piece("baseName"), b \in Piece("stage"),
      c \in Piece("bucketPattern"), d \in Piece("region") }

NextS3DB == \E arg \in S3DBArgs : update(arg)

SpecS3DB == Init /\ [][NextS3DB]_vars

\* ------------------------------------------------------------- the claims

Objects == {collections[i].obj : i \in 1..Len(collections)}

Children == {i \in 1..Len(collections) : collections[i].made.parent # 0}

ParentOf(i) == collections[collections[i].made.parent]

BucketOf(c) == c.obj.headBehavior.fullBucketName

NameOf(c) == Get(c.obj.configuration, "name")

CallMade == call.status # ""

CallSettled == call.status \in {"returned", "thrown"}

\* toKey(i, p) as the specification words it.
toKey(i, p) ==
  IF ~p.def \/ p.val = <<>> \/ StartsWith(i, p.val) THEN i ELSE p.val \o i

C2_PrefixComposition ==
  \A i \in 1..Len(collections) :
    Eff(collections[i].obj.idPrefix) = collections[i].made.path

\* C3: when the backend reports not-found, head returns an absent result and
\* throws nothing.
C3_HeadNotFoundAbsent ==
  (CallSettled /\ call.outcome = "NotFound") =>
    (call.status = "returned" /\ call.value = Undefined)

\* C4 as stated: the name the caller supplied is the name of the effective
\* configuration, also when the registry entry found for it holds a name.
C4_CallerNameWins ==
  \A i \in 1..Len(collections) :
    NameOf(collections[i]) = Str(nameOf(collections[i].made.type))

\* C4 as amended: the caller's binding supplies the field type only; type is
\* the caller's value, every other field is the registry entry's (found under
\* the lower-cased name) when the entry has it and the default otherwise.
C4_Precedence ==
  \A i \in 1..Len(collections) :
    LET type == collections[i].made.type
        conf == collections[i].obj.configuration
        entry == resolve(toLowerCase(nameOf(type)))
    IN /\ DOMAIN conf = {"type"} \cup DOMAIN entry \cup DOMAIN CollectionConfiguration
       /\ \A k \in DOMAIN conf :
            conf[k] = IF k = "type" THEN type
                      ELSE IF k \in DOMAIN entry THEN entry[k]
                      ELSE CollectionConfiguration[k]

\* A collection whose registry entry holds a name other than the caller's and
\* a type of its own, and lacks a field the defaults have.
C4_Witness ==
  \E i \in 1..Len(collections) :
    LET type == collections[i].made.type
        conf == collections[i].obj.configuration
        entry == resolve(toLowerCase(nameOf(type)))
    IN /\ "type" \in DOMAIN entry /\ entry.type # type /\ conf.type = type
       /\ conf.name = entry.name /\ conf.name # Str(nameOf(type))
       /\ "pageSize" \notin DOMAIN entry /\ conf.pageSize = CollectionConfiguration.pageSize

\* C5: the bucket of a collection, and of every head request it sends, is the
\* fully-qualified name under the process-wide configuration of the moment the
\* collection was constructed.
C5_BucketSnapshot ==
  /\ \A i \in 1..Len(collections) :
       BucketOf(collections[i]) =
         getCollectionFQN(collections[i].made.db, NameOf(collections[i]))
  /\ CallMade =>
       call.Bucket = getCollectionFQN(collections[call.col].made.db,
                                      NameOf(collections[call.col]))

\* A head request of a collection built before an update, whose bucket is not
\* the one the configuration now gives, beside a collection of the same name
\* built after the update, in the new bucket.
C5_Witness ==
  /\ CallMade
  /\ collections[call.col].made.db # configuration
  /\ call.Bucket # getCollectionFQN(configuration, NameOf(collections[call.col]))
  /\ \E j \in 1..Len(collections) :
       /\ j > call.col
       /\ NameOf(collections[j]) = NameOf(collections[call.col])
       /\ collections[j].made.db = configuration
       /\ BucketOf(collections[j]) # call.Bucket

Placeholders == {"{{stage}}", "{{region}}", "{{baseName}}", "{{bucketName}}"}

TokenDefined(db, t) ==
  CASE t = "{{stage}}" -> db.stage.def
    [] t = "{{baseName}}" -> db.baseName.def
    [] OTHER -> TRUE

\* C6: the bucket name computed for a collection holds no placeholder whose
\* token is defined, and substituting again in it changes nothing.
C6_TemplatingIdempotent ==
  \A i \in 1..Len(collections) :
    LET db == collections[i].made.db
        out == BucketOf(collections[i])
    IN /\ \A t \in Placeholders : TokenDefined(db, t) => IndexOf(out, t, 1) = 0
       /\ getCollectionFQN([db EXCEPT !.bucketPattern = Str(out)],
                           NameOf(collections[i])) = out

\* C7: every collection has a non-empty name and the bucket made from it; a
\* constructor call whose merged configuration has no non-empty name throws
\* before the bucket name, the client and the behaviours, and a constructor
\* call that throws nothing had a name.
C7_NoCollectionWithoutName ==
  /\ \A i \in 1..Len(collections) :
       /\ Truthy(NameOf(collections[i]))
       /\ BucketOf(collections[i]) =
            getCollectionFQN(collections[i].made.db, NameOf(collections[i]))
  /\ lastCtor.steps # <<>> =>
       LET name == nameOf(lastCtor.type)
           conf == mergeConfiguration(CollectionConfiguration,
                                      resolve(toLowerCase(name)), lastCtor.type)
           unnamed == name = <<>> \/ ~Truthy(Get(conf, "name"))
       IN /\ unnamed <=> lastCtor.error # ""
          /\ unnamed =>
               \A k \in 1..Len(lastCtor.steps) :
                 lastCtor.steps[k] \notin {"fqn", "s3Client", "behaviors"}

\* A constructor call for a type whose registry entry holds no name: it threw.
C7_Witness ==
  /\ lastCtor.type = StrT(<<"Items">>)
  /\ lastCtor.error = "The configuration has no name defined"
  /\ lastCtor.steps = <<"logger", "resolve">>
  /\ Len(collections) > 0

\* C8: when the backend fails with something other than not-found, head throws
\* an error holding the bucket and the key sent to the backend.
C8_HeadErrorContext ==
  (CallSettled /\ call.outcome = "AccessDenied") =>
    /\ call.status = "thrown"
    /\ call.error.bucket = call.Bucket
    /\ call.error.key = call.Key

\* C9 as stated: a child has the type, the configuration and the bucket of its
\* parent.
C9_ChildSharesParent ==
  \A i \in Children :
    /\ collections[i].obj.configuration.type = ParentOf(i).obj.configuration.type
    /\ collections[i].obj.configuration = ParentOf(i).obj.configuration
    /\ BucketOf(collections[i]) = BucketOf(ParentOf(i))

\* C9 as amended: a child is bound to the type handed to subCollection: its
\* configuration is the one merged for that type, its bucket the name of that
\* configuration under the process-wide configuration of the call, its prefix
\* `${parent prefix}${prefix}`; it has the parent's type, configuration and
\* bucket when that type is the parent's and the process-wide configuration is
\* the one the parent was built under.
C9_ChildBoundToNewType ==
  \A i \in Children :
    LET c == collections[i]
        p == ParentOf(i)
    IN /\ c.obj.configuration.type = c.made.type
       /\ c.obj.configuration =
            mergeConfiguration(CollectionConfiguration,
                               resolve(toLowerCase(nameOf(c.made.type))), c.made.type)
       /\ BucketOf(c) = getCollectionFQN(c.made.db, NameOf(c))
       /\ c.obj.idPrefix = Str(TemplateStr(p.obj.idPrefix) \o c.made.prefix)
       /\ c.obj.headBehavior.idPrefix = c.obj.idPrefix
       /\ (c.made.type = p.obj.configuration.type /\ c.made.db = p.made.db) =>
            /\ c.obj.configuration = p.obj.configuration
            /\ BucketOf(c) = BucketOf(p)

\* A child of another type than its parent, in another bucket.
C9_Witness ==
  \E i \in Children :
    /\ collections[i].obj.configuration.type # ParentOf(i).obj.configuration.type
    /\ collections[i].made.db = ParentOf(i).made.db
    /\ BucketOf(collections[i]) # BucketOf(ParentOf(i))

\* C10: each field of the process-wide configuration holds the value of the
\* latest update that supplied it, or its default; getRegion is the region
\* when one is set (a non-empty string) and 'us-west-2' when none is.
C10_FieldwiseOverlay ==
  /\ DOMAIN configuration = Fields
  /\ \A f \in Fields : configuration[f] = supplied[f]
  /\ Truthy(configuration.region) => getRegion(configuration) = configuration.region
  /\ ~Truthy(configuration.region) => getRegion(configuration) = Str(<<"us-west-2">>)

\* After updates: two fields as supplied, one still at its default, the region
\* unset and read as the fallback.
C10_Witness ==
  /\ configuration.stage = Str(<<"prod">>)
  /\ configuration.baseName = S3DBConfiguration.baseName
  /\ configuration.bucketPattern = Str(ExamplePattern)
  /\ supplied.region = Undefined
  /\ getRegion(configuration) = Str(<<"us-west-2">>)

====
